---- MODULE Spec2Model ----
(***************************************************************************)
(* Model of the authenticated-RPC engine of i2pd-exporter:                 *)
(*   src/src/i2pcontrol/client.rs  I2pControlClient::authenticate and      *)
(*                                 I2pControlClient::fetch_router_info     *)
(*   src/src/i2pcontrol/rpc.rs     rpc_call (its outcomes)                 *)
(* Several fetch_router_info calls run concurrently on one client.  Every  *)
(* action is the code of one call between two .await points.               *)
(***************************************************************************)
EXTENDS Integers, Sequences, FiniteSets, TLC

\* ---------------------------------------------------------------- bounds
NCalls == 2          \* number of concurrent fetch_router_info calls
MaxTime == 2         \* the clock runs from 0 to MaxTime
MaxBudget == 2       \* overall_timeout of a call is drawn from 0..MaxBudget

Calls == 1..NCalls

\* ------------------------------------------------- outcomes of rpc_call
\* Credential-expiry range of fetch_router_info (client.rs:187).
TokenErrLo == -32004
TokenErrHi == -32002

\* Codes the server puts into an error envelope: the ends of the range and
\* their outer neighbours.
RpcCodes == {TokenErrLo - 1, TokenErrLo, TokenErrHi, TokenErrHi + 1}

\* A value that rpc_call or fetch_router_info hands back: its variant, its
\* number (the code of an Rpc error, the request a Snapshot answers) and the
\* method field of the variants that have one.
Resp(k, v, m) == [kind |-> k, val |-> v, method |-> m]

NoResult == Resp("None", 0, "")
TimedOut == Resp("TimedOut", 0, "")      \* io::ErrorKind::TimedOut
AuthFailed == Resp("AuthFailed", 0, "")  \* "Authentication failed: no token received"
EncodeErr(m) == Resp("Encode", 0, m)     \* RpcCallError::Encode

\* One code inside the range and one outside: the codes the server sends
\* under FairSpec (termination does not depend on which code of a kind it is).
FewCodes == {TokenErrLo - 1, TokenErrLo}

\* RpcCallError values a dispatched call of method m can come back with,
\* the server taking its error codes from K.
RpcCallError(m, K) == {Resp("Transport", 0, ""), Resp("Http", 0, m), Resp("Decode", 0, m)}
                        \cup {Resp("Rpc", k, m) : k \in K}

\* Responses to the RouterInfo call of call c: the Snapshot the server made
\* for that request, or an RpcCallError.
RiResponses(c, K) == {Resp("Ok", c, "")} \cup RpcCallError("RouterInfo", K)

\* Responses to an Authenticate call: a result with a Token, a result
\* without one (types.rs:8-12), or an RpcCallError.
AuthResponses == {Resp("Token", 0, ""), Resp("NoToken", 0, ""),
                  Resp("Transport", 0, ""),
                  Resp("Rpc", TokenErrLo, "Authenticate")}

\* is_token_err with the range one short at its lower end, and with every
\* Rpc error taken for a token error.
is_token_err_Narrow(e) == e.kind = "Rpc" /\ e.val > TokenErrLo /\ e.val <= TokenErrHi
is_token_err_AnyRpc(e) == e.kind = "Rpc"

\* matches!(err, RpcCallError::Rpc { code: -32004..=-32002, .. })
is_token_err(e) == e.kind = "Rpc" /\ e.val >= TokenErrLo /\ e.val <= TokenErrHi

\* ----------------------------------------------------------------- state
VARIABLES
  now,          \* Instant::now()
  token,        \* I2pControlClient.token: 0 is None, t > 0 is Some(t)
  auth_lock,    \* I2pControlClient.auth_lock: 0 is free, c is held by call c
  token_lock,   \* the Mutex around token: 0 is free, c is held by call c
  issued,       \* server: number of tokens issued so far (tokens are 1..issued)
  call,         \* per call: its position and the locals of the two functions
  result,       \* per call: value returned by fetch_router_info
  late,         \* per call: it returned after its deadline
  riHist,       \* per call: responses of its RouterInfo calls
  authNet,      \* per call: number of Authenticate calls it dispatched
  authInv,      \* per call: number of invocations of authenticate
  clears,       \* per call: number of times it set the token to None
  reauthFor,    \* per call: the rejected token it dispatched an Authenticate
                \* call for after clearing (0: none)
  authOk,       \* every Authenticate call so far came back with a Token
  authLast,     \* per call: the last response to an Authenticate call of its own
  max_scrape_timeout,  \* I2pControlClient.max_scrape_timeout
  req,          \* per call: the HTTP request metrics_handler serves with it
  args,         \* arguments of the function a function-level specification applies
  ret           \* the value that function returned

shared == <<token, auth_lock, token_lock>>
ghost == <<riHist, authNet, authInv, clears, reauthFor, authOk, authLast>>
http == <<max_scrape_timeout, req>>
pure == <<args, ret>>
vars == <<now, shared, issued, call, result, late, ghost, http, pure>>

\* Locals of a call that has not started or has returned.  seen is the
\* Session token as it was when the call acquired auth_lock, kept while the
\* call is inside authenticate before its Authenticate call is answered.
Idle == [pc |-> "idle", deadline |-> 0, did_retry |-> FALSE, tok |-> 0,
         site |-> "first", timeout |-> 0, due |-> 0, fresh |-> 0, seen |-> 0]

\* A Duration of whole milliseconds, and the Durations of at least
\* 2^64 - 1024 seconds (u64::MAX seconds is one), which as_secs_f64 rounds
\* to 2^64.
Millis(n) == [cls |-> "fin", ms |-> n]
Secs(n) == Millis(1000 * n)
HugeDuration == [cls |-> "big", ms |-> 0]

\* default_value_t of max_scrape_timeout_seconds (config.rs:35), in seconds.
DefaultMaxScrapeTimeout == 120

\* No request yet; no arguments.
NoReq == [headers |-> [form |-> "unset", txt |-> "", ms |-> 0], status |-> 0,
          is_timeout |-> FALSE, encoded |-> FALSE, router_data |-> 0,
          scrape_error |-> 0]
NoArgs == NoResult

\* The client after I2pControlClient::new, no call entered.
InitClient ==
  /\ now = 0
  /\ token = 0
  /\ auth_lock = 0
  /\ token_lock = 0
  /\ issued = 0
  /\ call = [c \in Calls |-> Idle]
  /\ result = [c \in Calls |-> NoResult]
  /\ late = [c \in Calls |-> FALSE]
  /\ riHist = [c \in Calls |-> <<>>]
  /\ authNet = [c \in Calls |-> 0]
  /\ authInv = [c \in Calls |-> 0]
  /\ clears = [c \in Calls |-> 0]
  /\ reauthFor = [c \in Calls |-> 0]
  /\ authOk = TRUE
  /\ authLast = [c \in Calls |-> NoResult]
  /\ req = [c \in Calls |-> NoReq]

Init ==
  /\ InitClient
  /\ max_scrape_timeout = Secs(DefaultMaxScrapeTimeout)
  /\ args = NoArgs
  /\ ret = NoResult

\* --------------------------------------------- the code between two awaits
\* Outcome of a piece of code of one call: its locals afterwards and, when
\* fetch_router_info returns there, the value returned.
Goes(l) == [l |-> l, ret |-> NoResult]
Returns(r) == [l |-> [Idle EXCEPT !.pc = "done"], ret |-> r]

\* RouterInfo that dispatches without looking at the deadline.
RouterInfo_NoDeadlineCheck(l, t, enc) ==
  IF enc THEN Returns(EncodeErr("RouterInfo"))
  ELSE Goes([l EXCEPT !.pc = "ri_net", !.tok = t, !.site = "first",
                      !.timeout = 0, !.fresh = 0, !.seen = 0,
                      !.due = now + (l.deadline - now)])

\* client.rs:120-180: with token t in hand, build the request, check the
\* deadline and dispatch the RouterInfo call with the remaining time as its
\* timeout.  enc is the failure of serde_json::to_vec in rpc_call
\* (rpc.rs:105-108), which comes back as an error that is no token error.
RouterInfo(l, t, enc) ==
  IF now >= l.deadline THEN Returns(TimedOut)
  ELSE IF enc THEN Returns(EncodeErr("RouterInfo"))
  ELSE Goes([l EXCEPT !.pc = "ri_net", !.tok = t, !.site = "first",
                      !.timeout = 0, !.fresh = 0, !.seen = 0,
                      !.due = now + (l.deadline - now)])

\* client.rs:103-116 and 197-210: compute rem, return TimedOut when it is
\* zero, else enter authenticate(rem) from call site s and wait for
\* auth_lock.
CallAuthenticate(l, s) ==
  IF now >= l.deadline THEN Returns(TimedOut)
  ELSE Goes([l EXCEPT !.pc = "auth_wait", !.site = s,
                      !.timeout = l.deadline - now])

\* OnRead that goes on to the RouterInfo call with whatever it read.
OnRead_NoCheck(l, cur, enc) == RouterInfo(l, cur, enc)

\* client.rs:92-118: the token read at the top of the loop.
OnRead(l, cur, enc) ==
  IF cur # 0 THEN RouterInfo(l, cur, enc) ELSE CallAuthenticate(l, "first")

\* AuthReturnsOk that forgets to set did_retry.
AuthReturnsOk_NoFlag(l, t, enc) ==
  IF l.site = "first" THEN RouterInfo(l, t, enc)
  ELSE Goes([l EXCEPT !.pc = "read", !.tok = 0,
                      !.site = "first", !.timeout = 0, !.fresh = 0, !.seen = 0])

\* authenticate returned Ok(t).  At client.rs:116 the token goes into the
\* RouterInfo request; at client.rs:210-212 it is dropped, did_retry is set
\* and the loop starts over.
AuthReturnsOk(l, t, enc) ==
  IF l.site = "first" THEN RouterInfo(l, t, enc)
  ELSE Goes([l EXCEPT !.pc = "read", !.did_retry = TRUE, !.tok = 0,
                      !.site = "first", !.timeout = 0, !.fresh = 0, !.seen = 0])

\* OnDoubleCheck without the double-check.
OnDoubleCheck_NoRecheck(l, cur, enc) ==
  IF enc THEN Returns(EncodeErr("Authenticate"))
  ELSE Goes([l EXCEPT !.pc = "auth_net", !.due = now + l.timeout])

\* OnDoubleCheck that looks at the re-read token only in the
\* re-authentication.
OnDoubleCheck_RetryOnly(l, cur, enc) ==
  IF cur # 0 /\ l.site = "retry" THEN AuthReturnsOk(l, cur, enc)
  ELSE IF enc THEN Returns(EncodeErr("Authenticate"))
  ELSE Goes([l EXCEPT !.pc = "auth_net", !.due = now + l.timeout])

\* client.rs:53-66: the double-check under auth_lock; with no token the
\* Authenticate call is dispatched with the timeout argument.
OnDoubleCheck(l, cur, enc) ==
  IF cur # 0 THEN AuthReturnsOk(l, cur, enc)
  ELSE IF enc THEN Returns(EncodeErr("Authenticate"))
  ELSE Goes([l EXCEPT !.pc = "auth_net", !.due = now + l.timeout])

\* OnAuthenticate that takes a result without a Token for one with an
\* empty Token and stores it.
OnAuthenticate_StoreEmpty(l, r, t) ==
  IF r.kind \in {"Token", "NoToken"}
    THEN Goes([l EXCEPT !.pc = "auth_store", !.fresh = t, !.due = 0, !.seen = 0])
    ELSE Returns(r)

\* OnAuthenticate that swallows an error and lets the loop of
\* fetch_router_info start over.
OnAuthenticate_IgnoreError(l, r, t) ==
  IF r.kind = "Token" THEN Goes([l EXCEPT !.pc = "auth_store", !.fresh = t, !.due = 0, !.seen = 0])
  ELSE Goes([l EXCEPT !.pc = "read", !.did_retry = TRUE, !.tok = 0,
                      !.site = "first", !.timeout = 0, !.due = 0, !.seen = 0])

\* client.rs:58-68 and 77: the Authenticate call came back with r; t is the
\* token of a result that has one.  An error is returned by `?` at both call
\* sites of authenticate.
OnAuthenticate(l, r, t) ==
  IF r.kind = "Token" THEN Goes([l EXCEPT !.pc = "auth_store", !.fresh = t, !.due = 0, !.seen = 0])
  ELSE IF r.kind = "NoToken" THEN Returns(AuthFailed)
  ELSE Returns(r)

\* OnRouterInfo that answers a success from a cache kept across calls
\* (Snapshot 0) instead of with the response.
OnRouterInfo_Cached(l, r) ==
  IF r.kind = "Ok" THEN Returns(Resp("Ok", 0, ""))
  ELSE IF is_token_err(r) /\ ~l.did_retry
    THEN Goes([l EXCEPT !.pc = "clear", !.due = 0])
    ELSE Returns(r)

\* OnRouterInfo that returns every error, the credential-expiry ones too.
OnRouterInfo_NoRetry(l, r) == Returns(r)

\* OnRouterInfo that retries on every token error, ignoring did_retry.
OnRouterInfo_AlwaysRetry(l, r) ==
  IF r.kind = "Ok" THEN Returns(r)
  ELSE IF is_token_err(r)
    THEN Goes([l EXCEPT !.pc = "clear", !.due = 0])
    ELSE Returns(r)

\* client.rs:182-191 and 214-218: the RouterInfo call came back with r.
OnRouterInfo(l, r) ==
  IF r.kind = "Ok" THEN Returns(r)
  ELSE IF is_token_err(r) /\ ~l.did_retry
    THEN Goes([l EXCEPT !.pc = "clear", !.due = 0])
    ELSE Returns(r)

\* The call holds auth_lock through pc's inside authenticate; _flight is
\* dropped when authenticate returns.
InAuthenticate(l) == l.pc \in {"auth_check", "auth_net", "auth_store"}
\* LockAfter that keeps the lock when authenticate returns an error.
LockAfter_LeakOnError(c, l) == IF InAuthenticate(l) \/ l.pc = "done" THEN c ELSE 0

\* LockAfter that keeps the lock when authenticate returns a token.
LockAfter_LeakOnOk(c, l) == IF InAuthenticate(l) \/ l.pc \in {"ri_net", "read"} THEN c ELSE 0

LockAfter(c, l) == IF InAuthenticate(l) THEN c ELSE 0

\* The awaits of a call that lie inside the scope of a MutexGuard of token:
\* none, each guard is a temporary of one statement or block (client.rs:53,
\* 69-72, 92-95, 193-196).
TokenGuardScope == {}

\* TokenLockAfter with the guard of the token read at the top of the loop
\* kept while the token is in use, across the RouterInfo call.
TokenLockAfter_AcrossCall(c, l) == IF l.pc \in {"ri_net"} THEN c ELSE 0

\* The token Mutex after a piece of code of call c that held it: still held
\* if the call is suspended inside the scope of the guard.
TokenLockAfter(c, l) == IF l.pc \in TokenGuardScope THEN c ELSE 0

\* Call c moves on with outcome o.
Apply(c, o) ==
  /\ call' = [call EXCEPT ![c] = o.l]
  /\ result' = [result EXCEPT ![c] = o.ret]
  /\ late' = [late EXCEPT ![c] = (o.l.pc = "done" /\ now > call[c].deadline)]

\* ---------------------------------------------------------------- actions
\* client.rs:82-87: entry of fetch_router_info with overall_timeout b.
Start(c, b) ==
  /\ call[c].pc = "idle"
  /\ call' = [call EXCEPT ![c] = [Idle EXCEPT !.pc = "read", !.deadline = now + b]]
  /\ UNCHANGED <<now, shared, issued, result, late, ghost>>

\* The pc's at which the next thing a call does is self.token.lock().await
\* (client.rs:93, 53, 70, 194).
AtTokenLock(l) == l.pc \in {"read", "auth_check", "auth_store", "clear"}

\* self.token.lock().await completes: call c holds the token Mutex for the
\* piece of code that follows.
LockToken(c) ==
  /\ AtTokenLock(call[c])
  /\ token_lock = 0
  /\ token_lock' = c
  /\ UNCHANGED <<now, token, auth_lock, issued, call, result, late, ghost>>

\* client.rs:92-118 (and on to 180 when a token is cached).
ReadToken(c, enc) ==
  /\ call[c].pc = "read"
  /\ token_lock = c
  /\ LET o == OnRead(call[c], token, enc) IN
       /\ Apply(c, o)
       /\ token_lock' = TokenLockAfter(c, o.l)
       /\ authInv' = [authInv EXCEPT ![c] = IF o.l.pc = "auth_wait" THEN @ + 1 ELSE @]
  /\ UNCHANGED <<now, token, auth_lock, issued, riHist, authNet, clears, reauthFor,
                 authOk, authLast>>

\* AcquireLock that does not wait for the lock to be free.
AcquireLock_NoWait(c) ==
  /\ call[c].pc = "auth_wait"
  /\ auth_lock' = c
  /\ call' = [call EXCEPT ![c].pc = "auth_check", ![c].seen = token]
  /\ UNCHANGED <<now, token, token_lock, issued, result, late, ghost>>

\* client.rs:50: self.auth_lock.lock().await completes.
AcquireLock(c) ==
  /\ call[c].pc = "auth_wait"
  /\ auth_lock = 0
  /\ auth_lock' = c
  /\ call' = [call EXCEPT ![c].pc = "auth_check", ![c].seen = token]
  /\ UNCHANGED <<now, token, token_lock, issued, result, late, ghost>>

\* client.rs:53-66.
DoubleCheck(c, enc) ==
  /\ call[c].pc = "auth_check"
  /\ token_lock = c
  /\ LET o == OnDoubleCheck(call[c], token, enc) IN
       /\ Apply(c, o)
       /\ token_lock' = TokenLockAfter(c, o.l)
       /\ auth_lock' = LockAfter(c, o.l)
       /\ authNet' = [authNet EXCEPT ![c] = IF o.l.pc = "auth_net" THEN @ + 1 ELSE @]
       /\ reauthFor' = [reauthFor EXCEPT ![c] =
             IF o.l.pc = "auth_net" /\ call[c].site = "retry" THEN call[c].tok ELSE @]
       /\ authOk' = (authOk /\ o.ret # EncodeErr("Authenticate"))
  /\ UNCHANGED <<now, token, issued, riHist, authInv, clears, authLast>>

\* client.rs:58-68 and 77: the Authenticate call completes with r.
AuthResponse(c, r) ==
  /\ call[c].pc = "auth_net"
  /\ now <= call[c].due
  /\ LET o == OnAuthenticate(call[c], r, issued + 1) IN
       /\ Apply(c, o)
       /\ auth_lock' = LockAfter(c, o.l)
  /\ issued' = IF r.kind = "Token" THEN issued + 1 ELSE issued
  /\ authOk' = (authOk /\ r.kind = "Token")
  /\ authLast' = [authLast EXCEPT ![c] = r]
  /\ UNCHANGED <<now, token, token_lock, riHist, authNet, authInv, clears, reauthFor>>

\* client.rs:69-74: store the token and return it.
StoreToken(c, enc) ==
  /\ call[c].pc = "auth_store"
  /\ token_lock = c
  /\ token' = call[c].fresh
  /\ LET o == AuthReturnsOk(call[c], call[c].fresh, enc) IN
       /\ Apply(c, o)
       /\ token_lock' = TokenLockAfter(c, o.l)
       /\ auth_lock' = LockAfter(c, o.l)
  /\ UNCHANGED <<now, issued, ghost>>

\* RiResponse that clears the Session on every error of the RouterInfo call.
RiResponse_ClearOnError(c, r) ==
  /\ call[c].pc = "ri_net"
  /\ now <= call[c].due
  /\ Apply(c, OnRouterInfo(call[c], r))
  /\ riHist' = [riHist EXCEPT ![c] = Append(@, r)]
  /\ token' = IF r.kind = "Ok" THEN token ELSE 0
  /\ UNCHANGED <<now, auth_lock, token_lock, issued, authNet, authInv, clears,
                 reauthFor, authOk, authLast>>

\* client.rs:173-191 and 214-218: the RouterInfo call completes with r.
RiResponse(c, r) ==
  /\ call[c].pc = "ri_net"
  /\ now <= call[c].due
  /\ Apply(c, OnRouterInfo(call[c], r))
  /\ riHist' = [riHist EXCEPT ![c] = Append(@, r)]
  /\ UNCHANGED <<now, shared, issued, authNet, authInv, clears, reauthFor,
                 authOk, authLast>>

\* ClearToken that goes on to re-authenticate without clearing.
ClearToken_NoClear(c) ==
  /\ call[c].pc = "clear"
  /\ token_lock = c
  /\ LET o == CallAuthenticate(call[c], "retry") IN
       /\ Apply(c, o)
       /\ token_lock' = TokenLockAfter(c, o.l)
       /\ authInv' = [authInv EXCEPT ![c] = IF o.l.pc = "auth_wait" THEN @ + 1 ELSE @]
  /\ UNCHANGED <<now, token, auth_lock, issued, riHist, authNet, clears, reauthFor,
                 authOk, authLast>>

\* client.rs:193-210: clear the token, then re-authenticate.
ClearToken(c) ==
  /\ call[c].pc = "clear"
  /\ token_lock = c
  /\ token' = 0
  /\ clears' = [clears EXCEPT ![c] = @ + 1]
  /\ LET o == CallAuthenticate(call[c], "retry") IN
       /\ Apply(c, o)
       /\ token_lock' = TokenLockAfter(c, o.l)
       /\ authInv' = [authInv EXCEPT ![c] = IF o.l.pc = "auth_wait" THEN @ + 1 ELSE @]
  /\ UNCHANGED <<now, auth_lock, issued, riHist, authNet, reauthFor, authOk,
                 authLast>>

\* A call is waiting for the network.
InFlight(c) == call[c].pc \in {"auth_net", "ri_net"}

\* Time passes; a call in flight completes within the timeout it was given
\* (reqwest's .timeout(timeout), rpc.rs:124).
Tick ==
  /\ now < MaxTime
  /\ \A c \in Calls : InFlight(c) => now < call[c].due
  /\ now' = now + 1
  /\ UNCHANGED <<shared, issued, call, result, late, ghost>>

\* The steps call c takes without waiting for auth_lock: its own code and
\* the completion of its network calls, the server taking its error codes
\* from K.  At most one of them is enabled.
Proceed(c, K) ==
  \/ LockToken(c)
  \/ \E enc \in BOOLEAN : ReadToken(c, enc)
  \/ \E enc \in BOOLEAN : DoubleCheck(c, enc)
  \/ \E r \in AuthResponses : AuthResponse(c, r)
  \/ \E enc \in BOOLEAN : StoreToken(c, enc)
  \/ \E r \in RiResponses(c, K) : RiResponse(c, r)
  \/ ClearToken(c)

Step(K) ==
  \E c \in Calls :
    \/ \E b \in 0..MaxBudget : Start(c, b)
    \/ AcquireLock(c)
    \/ Proceed(c, K)

\* fetch_router_info called directly: no request is served and no
\* function-level specification runs.
FetchOnly(A) == A /\ UNCHANGED <<http, pure>>

Next == FetchOnly(Step(RpcCodes) \/ Tick)

Spec == Init /\ [][Next]_vars

\* A call is suspended: not started, returned, waiting for the network, or
\* waiting for an auth_lock that another call holds.
Suspended(c) ==
  \/ call[c].pc \in {"idle", "done"}
  \/ InFlight(c)
  \/ call[c].pc = "auth_wait" /\ auth_lock # 0

\* Time passes only while every call is suspended: the code between two
\* awaits takes no time.
TickSuspended ==
  /\ \A c \in Calls : Suspended(c)
  /\ Tick

NextInstant == FetchOnly(Step(RpcCodes) \/ TickSuspended)

SpecInstant == Init /\ [][NextInstant]_vars

TypeOK ==
  /\ now \in 0..MaxTime
  /\ token \in 0..issued
  /\ auth_lock \in {0} \cup Calls
  /\ token_lock \in {0} \cup Calls

\* --------------------------------------------- server.rs: effective_timeout
\* Times are whole milliseconds.  An f64 is a finite number of seconds on
\* the millisecond grid (cls "fin"), one that lies 0.4 ns below or above
\* the grid ("fin-", "fin+"), a finite number of at least 2^64 seconds
\* ("big"), NaN, or an infinity.  A Duration is a whole number of
\* nanoseconds; the ones that occur are on the millisecond grid.
F64(n) == [cls |-> "fin", ms |-> n]
F64Below(n) == [cls |-> "fin-", ms |-> n]
F64Above(n) == [cls |-> "fin+", ms |-> n]
F64Big == [cls |-> "big", ms |-> 0]
F64NaN == [cls |-> "nan", ms |-> 0]
F64Inf == [cls |-> "inf", ms |-> 0]
F64NegInf == [cls |-> "ninf", ms |-> 0]
ParseFloatError == [cls |-> "err", ms |-> 0]

\* The X-Prometheus-Scrape-Timeout-Seconds entry of the HeaderMap: none, a
\* value that is not visible ASCII (to_str fails), or a text.  Num(n) is the
\* decimal text of n milliseconds in seconds ("3.1" is Num(3100)).
Absent == [form |-> "absent", txt |-> "", ms |-> 0]
Opaque == [form |-> "opaque", txt |-> "", ms |-> 0]
Txt(t) == [form |-> "text", txt |-> t, ms |-> 0]
Num(n) == [form |-> "text", txt |-> "num", ms |-> n]

\* The decimal text of n milliseconds less 0.4 ns, and plus 0.4 ns
\* ("1.0999999996" is NumBelow(1100), "1.1000000004" is NumAbove(1100)).
NumBelow(n) == [form |-> "text", txt |-> "num-", ms |-> n]
NumAbove(n) == [form |-> "text", txt |-> "num+", ms |-> n]

\* s.parse::<f64>() (server.rs:25): decimal texts, the spellings of NaN and
\* the infinities, a literal too large for f64 (it parses to infinity), a
\* finite literal beyond 2^64; anything else is an error.
parse_f64(h) ==
  CASE h.txt = "num" -> F64(h.ms)
    [] h.txt = "num-" -> F64Below(h.ms)
    [] h.txt = "num+" -> F64Above(h.ms)
    [] h.txt = "1e30" -> F64Big
    [] h.txt = "1e400" -> F64Inf
    [] h.txt \in {"inf", "infinity"} -> F64Inf
    [] h.txt = "-inf" -> F64NegInf
    [] h.txt = "NaN" -> F64NaN
    [] OTHER -> ParseFloatError

\* f64::is_finite.
is_finite(x) == x.cls \in {"fin", "fin-", "fin+", "big"}

\* What x has beyond its whole milliseconds, in tenths of a nanosecond.
Sub(x) == CASE x.cls = "fin-" -> -4 [] x.cls = "fin+" -> 4 [] OTHER -> 0

\* x < y of two f64 below 2^64.
Lt(x, y) == x.ms < y.ms \/ (x.ms = y.ms /\ Sub(x) < Sub(y))

\* Duration::as_secs_f64: u64 seconds to f64, rounding to nearest.
as_secs_f64(d) == IF d.cls = "big" THEN F64Big ELSE F64(d.ms)

\* server.rs:19-20, in milliseconds.
MARGIN == 500
MARGIN_THRESHOLD == 3000

\* adjusted that takes the margin off at the threshold already.
\* adjusted with a floor of 1 s.
adjusted_FloorOneSecond(secs) ==
  IF secs.cls = "big" THEN secs
  ELSE LET a == IF Lt(F64(MARGIN_THRESHOLD), secs)
                 THEN [secs EXCEPT !.ms = @ - MARGIN] ELSE secs
       IN  IF Lt(F64(1000), a) THEN a ELSE F64(1000)

adjusted_AtThreshold(secs) ==
  IF secs.cls = "big" THEN secs
  ELSE LET a == IF secs.ms >= MARGIN_THRESHOLD THEN secs.ms - MARGIN ELSE secs.ms
       IN  F64(IF a > 100 THEN a ELSE 100)

\* server.rs:28-33: the margin above the threshold, then .max(0.1).  At
\* 2^64 and above the spacing of f64 exceeds the margin: secs - MARGIN is
\* secs.
adjusted(secs) ==
  IF secs.cls = "big" THEN secs
  ELSE LET a == IF Lt(F64(MARGIN_THRESHOLD), secs)
                 THEN [secs EXCEPT !.ms = @ - MARGIN] ELSE secs
       IN  IF Lt(F64(100), a) THEN a ELSE F64(100)

\* capped that forgets the cap.
capped_NoCap(a, hard_max) == a

\* server.rs:34: adjusted.min(hard_max.as_secs_f64()).
capped(a, hard_max) ==
  LET m == as_secs_f64(hard_max) IN
    CASE a.cls = "big" /\ m.cls = "big" -> F64Big
      [] a.cls = "big" -> m
      [] m.cls = "big" -> a
      [] OTHER -> IF Lt(m, a) THEN m ELSE a

\* Option<Duration> returned by effective_timeout, or its panic.
NoDuration == [kind |-> "None", d |-> Millis(0)]
SomeDuration(d) == [kind |-> "Some", d |-> d]
Panicked == [kind |-> "Panic", d |-> Millis(0)]

\* Duration::from_secs_f64 (server.rs:35): rounds to the nearest
\* nanosecond; panics on a negative value and on one that overflows
\* Duration, which 2^64 seconds does.
from_secs_f64(x) ==
  IF x.cls \in {"fin", "fin-", "fin+"} /\ ~Lt(x, F64(0))
  THEN SomeDuration(Millis(x.ms)) ELSE Panicked

\* server.rs:18-36.
effective_timeout(headers, hard_max) ==
  IF headers.form # "text" THEN NoDuration
  ELSE LET secs == parse_f64(headers) IN
    IF ~is_finite(secs) THEN NoDuration
    ELSE from_secs_f64(capped(adjusted(secs), hard_max))

\* Header values and ceilings the function is applied to.
HintMillis == {-5000, -1, 0, 1, 99, 100, 101, 200, 2999, 3000, 3001, 3100,
               3499, 3500, 3501, 3600, 9999, 10000, 10499, 10500, 10501,
               30000, 60000, 60500, 60501}
OffGridMillis == {100, 1100, 3000, 3500, 10000}
Headers == {Absent, Opaque} \cup {Num(n) : n \in HintMillis}
             \cup {NumBelow(n) : n \in OffGridMillis}
             \cup {NumAbove(n) : n \in OffGridMillis}
             \cup {Txt(t) : t \in {"not-a-number", "", "NaN", "inf", "infinity",
                                   "-inf", "1e400", "1e30"}}
Ceilings == {Secs(n) : n \in {0, 1, 3, 10, 60, DefaultMaxScrapeTimeout}}
              \cup {HugeDuration}

InitTimeout ==
  /\ InitClient
  /\ max_scrape_timeout \in Ceilings
  /\ args \in Headers
  /\ ret = NoResult

\* effective_timeout(&headers, st.max_scrape_timeout), server.rs:65.
Resolve ==
  /\ ret = NoResult
  /\ ret' = effective_timeout(args, max_scrape_timeout)
  /\ UNCHANGED <<now, shared, issued, call, result, late, ghost, http, args>>

SpecTimeout == InitTimeout /\ [][Resolve]_vars

\* ---------------------------------------------- server.rs: metrics_handler
\* The clock of the fetch calls counts tenths of a second.
Ticks(d) == d.ms \div 100

\* OnRequest that falls back to the ceiling when the hint is missing or
\* invalid.
OnRequest_DefaultBudget(headers, hard_max) ==
  LET e == effective_timeout(headers, hard_max) IN
    CASE e.kind = "None" -> [status |-> 0, start |-> TRUE, budget |-> Ticks(hard_max)]
      [] e.kind = "Panic" -> [status |-> -1, start |-> FALSE, budget |-> 0]
      [] OTHER -> [status |-> 0, start |-> TRUE, budget |-> Ticks(e.d)]

\* server.rs:64-77: the head of metrics_handler.  Without a budget it
\* answers 400 and is done; with one it enters fetch_router_info under
\* tokio::time::timeout.  A panic of effective_timeout ends the task
\* without an answer (status -1).
OnRequest(headers, hard_max) ==
  LET e == effective_timeout(headers, hard_max) IN
    CASE e.kind = "None" -> [status |-> 400, start |-> FALSE, budget |-> 0]
      [] e.kind = "Panic" -> [status |-> -1, start |-> FALSE, budget |-> 0]
      [] OTHER -> [status |-> 0, start |-> TRUE, budget |-> Ticks(e.d)]

\* The triple (status_code, router_data, scrape_error) of server.rs:73;
\* router_data 0 is None, n > 0 is Some(Snapshot n).
Triple(st, data, err) == [status |-> st, router_data |-> data, scrape_error |-> err]

\* OnFetched that answers 500 to the deadline-exceeded error of the fetch.
OnFetched_TimedOut500(r, is_timeout) ==
  CASE r.kind = "Ok" -> Triple(200, r.val, 0)
    [] r.kind = "Transport" /\ is_timeout -> Triple(504, 0, 1)
    [] OTHER -> Triple(500, 0, 1)

\* server.rs:86-108: the triple for what fetch_router_info returned;
\* is_timeout is e.is_timeout() of the reqwest::Error of a Transport error.
\* The missing-token error of authenticate is neither an RpcCallError nor an
\* io::Error.
OnFetched(r, is_timeout) ==
  CASE r.kind = "Ok" -> Triple(200, r.val, 0)
    [] r.kind = "Transport" /\ is_timeout -> Triple(504, 0, 1)
    [] r.kind = "TimedOut" -> Triple(504, 0, 1)
    [] OTHER -> Triple(500, 0, 1)

\* server.rs:78-85: the triple when the timer of tokio::time::timeout fired.
OnElapsed == Triple(504, 0, 1)

\* server.rs:110-125: the body is encoded from the triple and the reply
\* has its status.
Encoded(q, t, is_timeout) ==
  [q EXCEPT !.status = t.status, !.is_timeout = is_timeout, !.encoded = TRUE,
            !.router_data = t.router_data, !.scrape_error = t.scrape_error]

\* A request with these headers arrives and metrics_handler runs up to its
\* first await.
Request(c, h) ==
  /\ call[c].pc = "idle"
  /\ req[c] = NoReq
  /\ LET o == OnRequest(h, max_scrape_timeout) IN
       /\ req' = [req EXCEPT ![c] = [NoReq EXCEPT !.headers = h, !.status = o.status]]
       /\ IF o.start THEN Start(c, o.budget)
          ELSE UNCHANGED <<now, shared, issued, call, result, late, ghost>>

\* Abandon that leaves auth_lock with the dropped call.
Abandon_KeepLock(c) ==
  /\ call[c].pc \notin {"idle", "done"}
  /\ token_lock # c
  /\ call' = [call EXCEPT ![c] = [Idle EXCEPT !.pc = "done"]]
  /\ result' = [result EXCEPT ![c] = Resp("Abandoned", 0, "")]
  /\ UNCHANGED <<now, token, auth_lock, token_lock, issued, late, ghost>>

\* The future of call c is dropped at the await it is suspended at (a call
\* that holds the token Mutex is running, not suspended); the guard of
\* auth_lock is dropped with it.
Abandon(c) ==
  /\ call[c].pc \notin {"idle", "done"}
  /\ token_lock # c
  /\ call' = [call EXCEPT ![c] = [Idle EXCEPT !.pc = "done"]]
  /\ result' = [result EXCEPT ![c] = Resp("Abandoned", 0, "")]
  /\ auth_lock' = IF auth_lock = c THEN 0 ELSE auth_lock
  /\ UNCHANGED <<now, token, token_lock, issued, late, ghost>>

\* server.rs:73-85: the timer of tokio::time::timeout fires before the
\* fetch has returned; the fetch is dropped and the answer is 504.
Elapsed(c) ==
  /\ req[c] # NoReq
  /\ now >= call[c].deadline
  /\ Abandon(c)
  /\ req' = [req EXCEPT ![c] = Encoded(@, OnElapsed, FALSE)]

\* A step of the fetch of a request; when the fetch returns with it,
\* metrics_handler answers (server.rs:86-125).
Serve(c, K) ==
  /\ AcquireLock(c) \/ Proceed(c, K)
  /\ IF call'[c].pc = "done"
       THEN \E is_timeout \in IF result'[c].kind = "Transport" THEN BOOLEAN ELSE {FALSE} :
              req' = [req EXCEPT ![c] = Encoded(@, OnFetched(result'[c], is_timeout), is_timeout)]
       ELSE req' = req

\* Headers of the requests served.
RequestHeaders == {Absent, Txt("not-a-number"), Txt("NaN")}
                    \cup {Num(100 * b) : b \in 1..MaxBudget}

InitHandler ==
  /\ InitClient
  /\ max_scrape_timeout \in {Secs(0), Secs(DefaultMaxScrapeTimeout)}
  /\ args = NoArgs
  /\ ret = NoResult

NextHandler ==
  /\ \/ \E c \in Calls :
          \/ \E h \in RequestHeaders : Request(c, h)
          \/ Serve(c, FewCodes)
          \/ Elapsed(c)
     \/ Tick /\ UNCHANGED req
  /\ UNCHANGED <<max_scrape_timeout, pure>>

SpecHandler == InitHandler /\ [][NextHandler]_vars

\* ------------------------------------------- a fetch after earlier fetches
\* The last call is entered when the others are over, and runs alone.
Later == NCalls
Earlier == Calls \ {Later}

\* A server that accepts freshly issued tokens: a RouterInfo call carrying
\* the token issued to this very call succeeds; one carrying an older token
\* succeeds or is rejected with a credential-expiry code.
HealthyRi(c) ==
  IF authNet[c] >= 1 /\ call[c].tok = issued
    THEN {Resp("Ok", c, "")}
    ELSE {Resp("Ok", c, "")}
           \cup {Resp("Rpc", k, "RouterInfo") : k \in TokenErrLo..TokenErrHi}

\* The steps of call c against that server, which also accepts Authenticate;
\* the requests encode.
ProceedHealthy(c) ==
  \/ LockToken(c)
  \/ ReadToken(c, FALSE)
  \/ DoubleCheck(c, FALSE)
  \/ AuthResponse(c, Resp("Token", 0, ""))
  \/ StoreToken(c, FALSE)
  \/ \E r \in HealthyRi(c) : RiResponse(c, r)
  \/ ClearToken(c)

\* The earlier calls: any server, and any of them may be abandoned at any
\* await.
EarlierStep ==
  /\ call[Later].pc = "idle"
  /\ \E c \in Earlier :
       \/ \E b \in 0..MaxBudget : Start(c, b)
       \/ AcquireLock(c)
       \/ Proceed(c, FewCodes)
       \/ Abandon(c)

\* The later call, entered with a budget when no other call is running.
LaterStep ==
  /\ \A c \in Earlier : call[c].pc \in {"idle", "done"}
  /\ \/ \E b \in 1..MaxBudget : Start(Later, b)
     \/ AcquireLock(Later)
     \/ ProceedHealthy(Later)

\* The budget of the later call suffices: its deadline is not reached while
\* it runs.
TickRecover ==
  /\ call[Later].pc \notin {"idle", "done"} => now + 1 < call[Later].deadline
  /\ Tick

NextRecover == FetchOnly(EarlierStep \/ LaterStep \/ TickRecover)

\* The later call proceeds whenever it can.
SpecRecover ==
  /\ Init /\ [][NextRecover]_vars
  /\ WF_vars(FetchOnly(AcquireLock(Later) \/ ProceedHealthy(Later)))

\* ------------------------------------ rpc.rs: rpc_call, the response side
\* A member of the top-level JSON object of a response body: absent, present
\* with a value that deserializes as the type wanted ("good"), or present
\* with one that does not ("bad": null, a wrong type, a code beyond i32, no
\* message).  val numbers a result, code and message are those of an error.
NoMember == [st |-> "absent", val |-> 0, code |-> 0, message |-> ""]
BadMember == [st |-> "bad", val |-> 0, code |-> 0, message |-> ""]
ResultMember(v) == [st |-> "good", val |-> v, code |-> 0, message |-> ""]
ErrorMember(k, msg) == [st |-> "good", val |-> 0, code |-> k, message |-> msg]

\* A response body of n chars: a JSON object with its result and error
\* members (other members, as id and jsonrpc, are ignored by serde), a JSON
\* value that is no object, or a text that is no JSON.
ObjectBody(r, e, n) ==
  [json |-> TRUE, obj |-> TRUE, result |-> r, error |-> e, chars |-> n]
OtherBody(n) ==
  [json |-> TRUE, obj |-> FALSE, result |-> NoMember, error |-> NoMember, chars |-> n]
NotJson(n) ==
  [json |-> FALSE, obj |-> FALSE, result |-> NoMember, error |-> NoMember, chars |-> n]

\* A String made from a response body: a literal that has nothing of the
\* body, or the first n chars of body s.  The empty String is the literal "".
Literal(t) == [lit |-> t, of |-> NotJson(0), chars |-> 0]
Prefix(s, n) == IF n = 0 THEN Literal("") ELSE [lit |-> "", of |-> s, chars |-> n]

\* rpc.rs:10-17.
truncate_chars(s, max) == IF s.chars <= max THEN Prefix(s, s.chars) ELSE Prefix(s, max)

\* Chars of a response body that go into an error (rpc.rs:133, 168).
MaxSnippet == 2048

\* body_snippet that treats every method alike.
body_snippet_AnyMethod(method, body) ==
  IF body.chars > MaxSnippet THEN truncate_chars(body, MaxSnippet)
  ELSE Prefix(body, body.chars)

\* rpc.rs:130-137 and 166-172: the body_snippet of an Http or Decode error.
body_snippet(method, body) ==
  IF method = "Authenticate" THEN Literal("<omitted>")
  ELSE IF body.chars > MaxSnippet THEN truncate_chars(body, MaxSnippet)
  ELSE Prefix(body, body.chars)

\* e.to_string() of the serde_json::Error of from_str (rpc.rs:175): a
\* syntax error names the place in the text, a JSON value that fits no
\* variant of the untagged enum gives serde's fixed message.
de_error(text) ==
  IF text.json THEN "data did not match any variant of untagged enum RpcOutcome"
  ELSE "expected value at line 1 column 1"

\* What rpc_call returns: Resp with the message of an Rpc error, the error
\* of a Decode error and the body_snippet of an Http or Decode error.
Out(k, v, m, msg, e, snip) ==
  [kind |-> k, val |-> v, method |-> m, message |-> msg, error |-> e,
   body_snippet |-> snip]

\* from_str that takes a missing result for an empty one.
from_str_ResultOptional(text) ==
  CASE ~text.obj -> [variant |-> "fail", m |-> NoMember]
    [] text.result.st \in {"good", "absent"} -> [variant |-> "Ok", m |-> text.result]
    [] text.error.st = "good" -> [variant |-> "Err", m |-> text.error]
    [] OTHER -> [variant |-> "fail", m |-> NoMember]

\* serde_json::from_str::<RpcOutcome<T>> (rpc.rs:57-63, 157): the untagged
\* enum takes the first variant that deserializes, Ok { result } before
\* Err { error }, and a struct variant ignores members it does not name.
from_str(text) ==
  CASE ~text.obj -> [variant |-> "fail", m |-> NoMember]
    [] text.result.st = "good" -> [variant |-> "Ok", m |-> text.result]
    [] text.error.st = "good" -> [variant |-> "Err", m |-> text.error]
    [] OTHER -> [variant |-> "fail", m |-> NoMember]

\* StatusCode::is_success.
is_success(status) == status >= 200 /\ status <= 299

\* rpc_call that decodes the body before it looks at the status.
rpc_call_EnvelopeFirst(method, status, text) ==
  LET parsed == from_str(text) IN
    CASE parsed.variant = "Err" ->
           Out("Rpc", parsed.m.code, method, parsed.m.message, "", Literal(""))
      [] ~is_success(status) ->
           Out("Http", status, method, "", "", body_snippet(method, text))
      [] parsed.variant = "Ok" -> Out("Ok", parsed.m.val, "", "", "", Literal(""))
      [] OTHER -> Out("Decode", 0, method, "", de_error(text), body_snippet(method, text))

\* rpc.rs:127-179: what rpc_call makes of a response with this status and
\* body to a call of this method.
rpc_call(method, status, text) ==
  IF ~is_success(status)
    THEN Out("Http", status, method, "", "", body_snippet(method, text))
  ELSE LET parsed == from_str(text) IN
    CASE parsed.variant = "Ok" -> Out("Ok", parsed.m.val, "", "", "", Literal(""))
      [] parsed.variant = "Err" ->
           Out("Rpc", parsed.m.code, method, parsed.m.message, "", Literal(""))
      [] OTHER -> Out("Decode", 0, method, "", de_error(text), body_snippet(method, text))

\* Responses the function is applied to.
Members(good) == {NoMember, BadMember} \cup good
BodyChars == {MaxSnippet - 1, MaxSnippet, MaxSnippet + 1}
Bodies == {OtherBody(n) : n \in BodyChars} \cup {NotJson(n) : n \in BodyChars \cup {0}} \cup
  {ObjectBody(r, e, n) :
     r \in Members({ResultMember(v) : v \in 1..2}),
     e \in Members({ErrorMember(k, msg) : k \in RpcCodes \cup {0, -32003}, msg \in {"", "x"}}),
     n \in BodyChars}
Statuses == {200, 204, 404, 500}
Methods == {"Authenticate", "RouterInfo"}

InitDecode ==
  /\ InitClient
  /\ max_scrape_timeout = Secs(DefaultMaxScrapeTimeout)
  /\ args \in [method : Methods, status : Statuses, text : Bodies]
  /\ ret = NoResult

\* The response arrives.
Respond ==
  /\ ret = NoResult
  /\ ret' = rpc_call(args.method, args.status, args.text)
  /\ UNCHANGED <<now, shared, issued, call, result, late, ghost, http, args>>

SpecDecode == InitDecode /\ [][Respond]_vars

\* ------------------------------------ rpc.rs: truncate_chars, on bytes
\* A char is named; len_utf8 is the number of bytes of its UTF-8 encoding.
len_utf8(c) ==
  CASE c = "a" -> 1 [] c = "e-acute" -> 2 [] c = "euro" -> 3 [] OTHER -> 4

\* A sequence of chars is written as runs: n times the char c, then the
\* next run, which is of another char.
Run(c, n) == [c |-> c, n |-> n]

\* The bytes the chars cs encode to.
RECURSIVE utf8_len(_)
utf8_len(cs) ==
  IF cs = <<>> THEN 0
  ELSE Head(cs).n * len_utf8(Head(cs).c) + utf8_len(Tail(cs))

\* A str: len bytes, of which the longest decodable prefix is the chars.
\* A String or &str of Rust is all chars: len = utf8_len(chars).
Str(cs, len) == [chars |-> cs, len |-> len]

\* str::chars and Iterator::count, Iterator::take, collect::<String>.
chars(s) == s.chars
RECURSIVE count(_)
count(cs) == IF cs = <<>> THEN 0 ELSE Head(cs).n + count(Tail(cs))
RECURSIVE take(_, _)
take(cs, n) ==
  IF n = 0 \/ cs = <<>> THEN <<>>
  ELSE IF Head(cs).n <= n THEN <<Head(cs)>> \o take(Tail(cs), n - Head(cs).n)
  ELSE <<Run(Head(cs).c, n)>>
collect(cs) == Str(cs, utf8_len(cs))

\* The chars of cs that lie wholly within its first b bytes.
RECURSIVE within(_, _)
within(cs, b) ==
  IF cs = <<>> THEN <<>>
  ELSE LET w == len_utf8(Head(cs).c) IN
    IF b < w THEN <<>>
    ELSE IF Head(cs).n * w <= b
      THEN <<Head(cs)>> \o within(Tail(cs), b - Head(cs).n * w)
    ELSE <<Run(Head(cs).c, b \div w)>>

\* truncate_chars_utf8 that counts bytes and keeps the first max of them.
truncate_chars_utf8_Bytes(s, max) ==
  IF s.len <= max THEN s ELSE Str(within(chars(s), max), max)

\* rpc.rs:10-17, truncate_chars on the bytes of the str.
truncate_chars_utf8(s, max) ==
  LET t == collect(take(chars(s), max)) IN
    IF count(chars(s)) <= max THEN s ELSE t

\* rpc.rs:133-137 and 168-172: the body_snippet of an error of a method
\* other than Authenticate, on the bytes of the body.
body_snippet_utf8(body) ==
  IF count(chars(body)) > MaxSnippet THEN truncate_chars_utf8(body, MaxSnippet)
  ELSE body

\* Strings and bounds the function is applied to.
MaxRuns == 2
Chars == {"a", "e-acute", "euro", "grin"}
RunLens == {1, 2, 3, MaxSnippet - 1, MaxSnippet + 1}
Runs == {Run(c, n) : c \in Chars, n \in RunLens}
Strings ==
  {collect(cs) : cs \in
     {cs \in UNION {[1..k -> Runs] : k \in 0..MaxRuns} :
        \A i \in 1..(Len(cs) - 1) : cs[i].c # cs[i + 1].c}}
MaxChars == {0, 1, 2, 3, 4, 10, MaxSnippet - 1, MaxSnippet, MaxSnippet + 1}

InitTruncate ==
  /\ InitClient
  /\ max_scrape_timeout = Secs(DefaultMaxScrapeTimeout)
  /\ args \in [s : Strings, max : MaxChars]
  /\ ret = NoResult

\* truncate_chars(&s, max), and the snippet rpc_call makes of s as a body.
Truncate ==
  /\ ret = NoResult
  /\ ret' = [kind |-> "String", t |-> truncate_chars_utf8(args.s, args.max),
             body_snippet |-> body_snippet_utf8(args.s)]
  /\ UNCHANGED <<now, shared, issued, call, result, late, ghost, http, args>>

SpecTruncate == InitTruncate /\ [][Truncate]_vars

\* ------------------------------------ rpc.rs: redact_sensitive_fields
\* A serde_json::Value: a scalar (a string or null; numbers and booleans
\* are treated as these are), an array of values, or an object, a list of
\* members with distinct keys.  An item of an array has the key "".
Item(k, v) == [k |-> k, v |-> v]
JNull == [t |-> "null", s |-> "", items |-> <<>>]
JString(x) == [t |-> "string", s |-> x, items |-> <<>>]
JArray(vs) == [t |-> "array", s |-> "", items |-> [i \in DOMAIN vs |-> Item("", vs[i])]]
JObject(ms) == [t |-> "object", s |-> "", items |-> ms]

RECURSIVE redact_sensitive_fields(_)
RECURSIVE redact_sensitive_fields_ObjectsOnly(_)
\* redact_sensitive_fields that does not look into arrays.
redact_sensitive_fields_ObjectsOnly(v) ==
  IF v.t = "object"
    THEN [v EXCEPT !.items =
           [i \in DOMAIN v.items |->
              IF v.items[i].k \in {"Password", "Token"}
                THEN Item(v.items[i].k, JString("***redacted***"))
                ELSE Item(v.items[i].k, redact_sensitive_fields_ObjectsOnly(v.items[i].v))]]
    ELSE v

\* rpc.rs:65-86.
redact_sensitive_fields(v) ==
  CASE v.t = "object" ->
         [v EXCEPT !.items =
           [i \in DOMAIN v.items |->
              IF v.items[i].k \in {"Password", "Token"}
                THEN Item(v.items[i].k, JString("***redacted***"))
                ELSE Item(v.items[i].k, redact_sensitive_fields(v.items[i].v))]]
    [] v.t = "array" ->
         [v EXCEPT !.items =
           [i \in DOMAIN v.items |-> Item("", redact_sensitive_fields(v.items[i].v))]]
    [] OTHER -> v

\* Values the function is applied to: nested to depth MaxDepth, objects of
\* one or two members, arrays of one or two items, keys that are to be
\* redacted and keys that are not (JSON keys are case-sensitive).
MaxDepth == 3
Keys == <<"Password", "Token", "password", "params">>
Scalars == {JString("secret"), JNull}

RECURSIVE Values(_)
Values(d) ==
  IF d = 0 THEN Scalars
  ELSE LET V == Values(d - 1) IN
    V \cup {JArray(<<v>>) : v \in V}
      \cup {JArray(<<v, w>>) : v \in V, w \in Scalars}
      \cup {JObject(<<Item(Keys[i], v)>>) : i \in DOMAIN Keys, v \in V}
      \cup {JObject(<<Item(Keys[p[1]], v), Item(Keys[p[2]], w)>>) :
              p \in {q \in (DOMAIN Keys) \X (DOMAIN Keys) : q[1] < q[2]},
              v \in V, w \in Scalars}

InitRedact ==
  /\ InitClient
  /\ max_scrape_timeout = Secs(DefaultMaxScrapeTimeout)
  /\ args \in Values(MaxDepth)
  /\ ret = NoResult

\* rpc.rs:110-112: the request is redacted for the log.
Redact ==
  /\ ret = NoResult
  /\ ret' = [kind |-> "Value", redacted |-> redact_sensitive_fields(args)]
  /\ UNCHANGED <<now, shared, issued, call, result, late, ghost, http, args>>

SpecRedact == InitRedact /\ [][Redact]_vars

\* ------------------------------------ types.rs: RouterInfoResult::merge_from
\* The fields of RouterInfoResult (types.rs:17-76), each an Option.
Fields ==
  {"router_status", "router_version", "router_uptime", "bw_inbound_1s",
   "bw_inbound_15s", "bw_outbound_1s", "bw_outbound_15s",
   "bw_transit_15s", "net_status", "net_status_v6", "net_error",
   "net_error_v6", "net_testing", "net_testing_v6",
   "tunnels_participating", "tunnels_inbound", "tunnels_outbound",
   "tunnels_successrate", "tunnels_total_successrate", "tunnels_queue",
   "tunnels_tbmqueue", "netdb_activepeers", "netdb_knownpeers",
   "netdb_floodfills", "netdb_leasesets", "net_total_received_bytes",
   "net_total_sent_bytes", "net_transit_sent_bytes"}

\* Option<T>: None, or Some(v).
None == <<>>
Some(v) == <<v>>

\* merge_from that takes the other snapshot whole.
merge_from_Overwrite(self, other) == other

\* types.rs:81-166: for each field, `if let Some(v) = other.f { self.f =
\* Some(v); }`.  The value is self afterwards.
merge_from(self, other) ==
  [f \in Fields |-> IF other[f] # None THEN other[f] ELSE self[f]]

\* Snapshots the function is applied to: two fields X and Y hold any of
\* None, Some(5), Some(7), Some(9); the other fields are None.
FieldValues == {None, Some(5), Some(7), Some(9)}
Snapshot(X, x, Y, y) == [f \in Fields |-> IF f = X THEN x ELSE IF f = Y THEN y ELSE None]

InitMerge ==
  /\ InitClient
  /\ max_scrape_timeout = Secs(DefaultMaxScrapeTimeout)
  /\ args \in {[self |-> Snapshot(X, a, Y, b), other |-> Snapshot(X, c, Y, d)] :
                 X \in Fields, Y \in Fields, a \in FieldValues, b \in FieldValues,
                 c \in FieldValues, d \in FieldValues}
  /\ ret = NoResult

\* a.merge_from(b).
Merge ==
  /\ ret = NoResult
  /\ ret' = [kind |-> "Snapshot", self |-> merge_from(args.self, args.other)]
  /\ UNCHANGED <<now, shared, issued, call, result, late, ghost, http, args>>

SpecMerge == InitMerge /\ [][Merge]_vars

\* Display of RpcCallError (rpc.rs:27-55): the format string of the variant
\* and the fields it prints.
ErrText(fmt, st, m, k, msg, e, snip) ==
  [fmt |-> fmt, status |-> st, method |-> m, code |-> k, message |-> msg,
   error |-> e, body_snippet |-> snip]

to_string(e) ==
  CASE e.kind = "Http" ->
         ErrText("HTTP {status} calling {method}: body: {body_snippet}",
                 e.val, e.method, 0, "", "", e.body_snippet)
    [] e.kind = "Rpc" ->
         ErrText("{method} error {code}: {message}",
                 0, e.method, e.val, e.message, "", Literal(""))
    [] e.kind = "Decode" ->
         ErrText("error decoding response body for {method}: {error}; body: {body_snippet}",
                 0, e.method, 0, "", e.error, e.body_snippet)
    [] OTHER -> ErrText("", 0, "", 0, "", "", Literal(""))

\* One call answered in two ways: with the same status and two bodies.
InitPair ==
  /\ InitClient
  /\ max_scrape_timeout = Secs(DefaultMaxScrapeTimeout)
  /\ args \in [method : Methods, status : Statuses, text : Bodies, other : Bodies]
  /\ ret = NoResult

\* What rpc_call returns for the one response and for the other.
RespondPair ==
  /\ ret = NoResult
  /\ ret' = [kind |-> "Pair",
             first |-> rpc_call(args.method, args.status, args.text),
             second |-> rpc_call(args.method, args.status, args.other)]
  /\ UNCHANGED <<now, shared, issued, call, result, late, ghost, http, args>>

SpecPair == InitPair /\ [][RespondPair]_vars

\* ================================================================= claims
\* Vocabulary of the claims, written from their statements.
RECURSIVE Sum(_, _)
Sum(f, S) == IF S = {} THEN 0
             ELSE LET x == CHOOSE y \in S : TRUE IN f[x] + Sum(f, S \ {x})

\* Authenticate network calls dispatched so far, by all calls.
TotalAuthNet == Sum(authNet, Calls)

\* RouterInfo network calls dispatched so far by call c.
RiDispatched(c) == Len(riHist[c]) + (IF call[c].pc = "ri_net" THEN 1 ELSE 0)

\* A credential-expiry error: Rpc with a code in -32004..=-32002.
InExpiryRange(e) == e.kind = "Rpc" /\ e.val \in (-32004)..(-32002)

\* Number of credential-expiry errors call c has observed.
ExpirySeen(c) == Cardinality({i \in 1..Len(riHist[c]) : InExpiryRange(riHist[c][i])})

\* The server has made every Authenticate and RouterInfo call succeed.
AllSucceed ==
  /\ authOk
  /\ \A c \in Calls : \A i \in 1..Len(riHist[c]) : riHist[c][i].kind = "Ok"

\* The server has answered every RouterInfo call with a credential-expiry error.
RiAlwaysExpired ==
  \A c \in Calls : \A i \in 1..Len(riHist[c]) : InExpiryRange(riHist[c][i])

\* C1: starting from an empty Session, against a server whose Authenticate
\* and RouterInfo calls succeed, concurrent fetch calls dispatch exactly one
\* Authenticate network call: never more than one, and one as soon as a
\* call has a RouterInfo call out or a Snapshot back.
C1_SingleflightColdStart ==
  AllSucceed =>
    /\ TotalAuthNet <= 1
    /\ (\E c \in Calls : call[c].pc = "ri_net" \/ result[c].kind = "Ok")
         => TotalAuthNet = 1

\* Both calls entered authenticate with no cached token (they raced), both
\* returned a Snapshot, one Authenticate call went out.
C1_Witness ==
  /\ AllSucceed
  /\ \A c \in Calls : result[c].kind = "Ok" /\ authInv[c] = 1
  /\ TotalAuthNet = 1

\* C2: at most one Authenticate network call is in flight at any instant.
C2_OneAuthInFlight ==
  Cardinality({c \in Calls : call[c].pc = "auth_net"}) <= 1

\* An Authenticate call is in flight while another call waits for auth_lock.
C2_Witness ==
  \E c, d \in Calls : call[c].pc = "auth_net" /\ call[d].pc = "auth_wait"

\* C3: of the calls that saw one and the same token rejected with a
\* credential-expiry error, at most one dispatches an Authenticate network
\* call, and at cold start at most one Authenticate call goes out, as long
\* as every Authenticate call comes back with a Token.
C3_OneAuthPerWindow ==
  authOk =>
    /\ issued = 0 => TotalAuthNet <= 1
    /\ \A t \in 1..issued : Cardinality({c \in Calls : reauthFor[c] = t}) <= 1

\* C4: a fetch call dispatches at most 2 RouterInfo network calls.
C4_AtMostTwoRouterInfo == \A c \in Calls : RiDispatched(c) <= 2

\* A call has had two RouterInfo calls answered.
C4_Witness == \E c \in Calls : Len(riHist[c]) = 2 /\ call[c].pc = "done"

\* C5 as stated: against a server that always answers RouterInfo with a
\* credential-expiry error a fetch call invokes authenticate at most 2 times.
C5_AtMostTwoAuthenticate ==
  RiAlwaysExpired => \A c \in Calls : authInv[c] <= 2

\* C5 amended: it invokes authenticate at most 3 times (and dispatches no
\* more Authenticate calls than that), and 3 times only when another call
\* cleared the Session; a call that is the only one to clear stays at 2.
C5_AtMostThreeAuthenticate ==
  RiAlwaysExpired =>
    \A c \in Calls :
      /\ authInv[c] <= 3
      /\ authNet[c] <= authInv[c]
      /\ authInv[c] = 3 => \E d \in Calls \ {c} : clears[d] >= 1

\* A call returned its second credential-expiry error after invoking
\* authenticate three times against the always-rejecting server.
C5_Witness ==
  /\ RiAlwaysExpired
  /\ \E c \in Calls : /\ authInv[c] = 3
                      /\ call[c].pc = "done"
                      /\ Len(riHist[c]) = 2
                      /\ result[c] = riHist[c][2]

\* C6: a fetch call returns no later than its deadline (entry time plus
\* overall budget), given that every network call completes within the
\* timeout it was given and the code between awaits takes no time.
C6_ReturnsWithinBudget == \A c \in Calls : ~late[c]

\* Scheduling: a call that can proceed does, every network call completes,
\* and a call waiting for auth_lock gets it when it is free again and again
\* (tokio's Mutex is fair).  No call is obliged to start.
Fairness ==
  \A c \in Calls : /\ WF_vars(FetchOnly(Proceed(c, FewCodes)))
                   /\ SF_vars(FetchOnly(AcquireLock(c)))

NextFair == FetchOnly(Step(FewCodes) \/ Tick)

FairSpec == Init /\ [][NextFair]_vars /\ Fairness

\* C7: every fetch_router_info call that has been entered eventually
\* returns, whatever the server answers.
C7_EveryFetchReturns ==
  \A c \in Calls : (call[c].pc \notin {"idle", "done"}) ~> (call[c].pc = "done")

\* Against the always-rejecting server a call has returned after its retry,
\* having waited for auth_lock behind another call.
C7_Witness ==
  /\ RiAlwaysExpired
  /\ \E c \in Calls : /\ call[c].pc = "done"
                      /\ Len(riHist[c]) = 2
                      /\ authInv[c] > authNet[c]

\* C8: when the first RouterInfo call of a fetch fails with a
\* credential-expiry error, that error is not what the fetch returns unless
\* a second RouterInfo call fails too, and when the second RouterInfo call
\* succeeds the fetch returns the Snapshot of that second call.
C8_RetryHidesFirstError ==
  \A c \in Calls :
    (Len(riHist[c]) >= 1 /\ InExpiryRange(riHist[c][1])) =>
      /\ Len(riHist[c]) = 1 => result[c] # riHist[c][1]
      /\ (Len(riHist[c]) = 2 /\ riHist[c][2].kind = "Ok") =>
           call[c].pc = "done" /\ result[c] = riHist[c][2]

\* A call got a credential-expiry error, then a Snapshot, and returned it.
C8_Witness ==
  \E c \in Calls : /\ Len(riHist[c]) = 2
                   /\ InExpiryRange(riHist[c][1])
                   /\ riHist[c][2].kind = "Ok"
                   /\ result[c] = riHist[c][2]

\* C9: a RouterInfo failure that is no credential-expiry error, and a second
\* credential-expiry error of the same fetch call, end the call with that
\* same error: the call has returned it and has nothing in flight.
C9_TerminalErrorReturned ==
  \A c \in Calls :
    Len(riHist[c]) >= 1 =>
      LET e == riHist[c][Len(riHist[c])] IN
        (e.kind # "Ok" /\ (~InExpiryRange(e) \/ Len(riHist[c]) = 2)) =>
          /\ call[c].pc = "done"
          /\ result[c] = e
          /\ RiDispatched(c) = Len(riHist[c])

\* A call returned a Transport error of its first RouterInfo call, another
\* returned its second credential-expiry error.
C9_Witness ==
  \E c, d \in Calls :
    /\ riHist[c] = <<Resp("Transport", 0, "")>> /\ result[c] = riHist[c][1]
    /\ Len(riHist[d]) = 2 /\ InExpiryRange(riHist[d][2]) /\ result[d] = riHist[d][2]

\* C10 as stated: whenever a call has observed a credential-expiry error it
\* has cleared the token for it by the time it retries or returns.
C10_ClearsOnEveryExpiry ==
  \A c \in Calls : call[c].pc # "clear" => clears[c] = ExpirySeen(c)

\* C10 amended: a call clears the token for the first credential-expiry
\* error it observes, before it retries or returns, and for no other.
C10_ClearsOnFirstExpiry ==
  \A c \in Calls :
    clears[c] = (IF ExpirySeen(c) >= 1 /\ call[c].pc # "clear" THEN 1 ELSE 0)

\* A call returned its second credential-expiry error having cleared once,
\* and the Session still holds a token.
C10_Witness ==
  \E c \in Calls : /\ ExpirySeen(c) = 2
                   /\ clears[c] = 1
                   /\ call[c].pc = "done"
                   /\ token # 0

\* C11: when the Authenticate call of a fetch comes back with a result that
\* has no Token, the fetch has returned the authentication-failed error; the
\* step that receives the result leaves the Session token as it was, and
\* from then on the call neither invokes authenticate nor dispatches an
\* Authenticate call again.
C11_NoTokenIsTerminal ==
  /\ [](\A c \in Calls :
          authLast[c].kind = "NoToken" =>
            call[c].pc = "done" /\ result[c].kind = "AuthFailed")
  /\ [][\A c \in Calls :
          authLast'[c].kind = "NoToken" =>
            /\ authLast[c].kind # "NoToken" => token' = token
            /\ authLast[c].kind = "NoToken" =>
                 authNet'[c] = authNet[c] /\ authInv'[c] = authInv[c]]_vars

\* A call got a result without a Token in its re-authentication, after a
\* credential-expiry error, and returned authentication-failed; the Session
\* is left empty.
C11_Witness ==
  \E c \in Calls : /\ authLast[c].kind = "NoToken"
                   /\ result[c].kind = "AuthFailed"
                   /\ clears[c] = 1
                   /\ token = 0

\* C13: a Snapshot returned by a fetch call is the response to the last
\* RouterInfo call that this same call dispatched (the server numbers a
\* Snapshot by the call whose request it answers), never the Snapshot of
\* another call.
C13_SnapshotFromOwnCall ==
  \A c \in Calls :
    result[c].kind = "Ok" =>
      /\ Len(riHist[c]) >= 1
      /\ result[c] = riHist[c][Len(riHist[c])]
      /\ result[c].val = c

\* Both calls returned a Snapshot, one of them from its second RouterInfo
\* call, the other with the token the first one obtained.
C13_Witness ==
  /\ \A c \in Calls : result[c].kind = "Ok" /\ result[c].val = c
  /\ \E c \in Calls : Len(riHist[c]) = 2
  /\ \E c \in Calls : authNet[c] = 0

\* The hint of the request is a finite number: a decimal text, or a finite
\* literal however large.
HintIsFinite == args.form = "text" /\ args.txt \in {"num", "num-", "num+", "1e30"}

\* effective_timeout has been applied.
Resolved == ret # NoResult

\* C14: effective_timeout returns None when the hint is absent, not
\* parseable as a number or not finite, and Some budget for every finite
\* hint.
C14_NoneIffNoFiniteHint ==
  Resolved => (IF HintIsFinite THEN ret.kind = "Some" ELSE ret.kind = "None")

C16_AtLeastFloor ==
  (Resolved /\ ret.kind = "Some") => ret.d.ms >= 100

ObjectOn2xx == ret # NoResult /\ args.status \in 200..299 /\ args.text.obj

\* C19: on a 2xx response a body holding only a result member decodes to
\* the success branch with that result, and a body holding only an error
\* member decodes to RpcCallError::Rpc with the code and the message of the
\* body and the method of the call.
C19_EnvelopeDecodes ==
  ObjectOn2xx =>
    LET r == args.text.result
        e == args.text.error
    IN  /\ (r.st = "good" /\ e.st = "absent") =>
              ret.kind = "Ok" /\ ret.val = r.val
        /\ (e.st = "good" /\ r.st = "absent") =>
              /\ ret.kind = "Rpc"
              /\ ret.val = e.code /\ ret.message = e.message
              /\ ret.method = args.method

\* A body with only an error member of code -32003 and message "x" came
\* back as Rpc with that code and message.
C19_Witness ==
  /\ ObjectOn2xx
  /\ args.text.result.st = "absent"
  /\ ret.kind = "Rpc" /\ ret.val = -32003 /\ ret.message = "x"

\* C20: on a 2xx response a body that has neither a result nor an error
\* member, or that has both, makes rpc_call return RpcCallError::Decode.
C20_NeitherOrBothIsDecode ==
  ObjectOn2xx =>
    LET hasResult == args.text.result.st # "absent"
        hasError == args.text.error.st # "absent"
    IN  (hasResult <=> hasError) => ret.kind = "Decode"

\* The request served with call c has arrived without a usable hint: no
\* header, or a value that is no finite number.
HintMissingOrInvalid(c) ==
  /\ req[c].headers.form # "unset"
  /\ ~(req[c].headers.form = "text" /\ req[c].headers.txt \in {"num", "1e30"})

\* C18: a request whose hint is missing or invalid is answered 400 and no
\* fetch is started for it (no deadline is set, authenticate is not invoked,
\* no network call is dispatched); the step that answers it leaves the
\* Session token, auth_lock and every call as they were.
C18_NoHintIs400 ==
  /\ [](\A c \in Calls :
          HintMissingOrInvalid(c) =>
            /\ req[c].status = 400
            /\ call[c].pc = "idle" /\ call[c].deadline = 0
            /\ authInv[c] = 0 /\ authNet[c] = 0 /\ riHist[c] = <<>>)
  /\ [][\A c \in Calls :
          (req[c].status # 400 /\ req'[c].status = 400) =>
            token' = token /\ auth_lock' = auth_lock /\ call' = call]_vars

\* A request without the header was answered 400 while another call had a
\* RouterInfo call out with the cached token.
C18_Witness ==
  \E c, d \in Calls :
    /\ req[c].headers.form = "absent" /\ req[c].status = 400
    /\ call[d].pc = "ri_net" /\ token # 0

\* C12: a fetch call entered after the other calls have failed, timed out
\* or been abandoned, running alone with a budget that suffices against a
\* server that accepts Authenticate and freshly issued tokens, returns a
\* Snapshot, whatever token the earlier calls left in the Session.
C12_LaterFetchRecovers ==
  (call[Later].pc \notin {"idle", "done"})
    ~> (call[Later].pc = "done" /\ result[Later].kind = "Ok")

\* An earlier call was abandoned and left a token in the Session; the later
\* call had it rejected, re-authenticated and returned a Snapshot.
C12_Witness ==
  /\ \E c \in Earlier : result[c].kind = "Abandoned"
  /\ result[Later].kind = "Ok"
  /\ Len(riHist[Later]) = 2
  /\ authNet[Later] = 1


\* C29: every Authenticate call in flight was given a timeout no larger than
\* the time that remained until its fetch call's deadline when it was
\* dispatched, so it is due no later than the deadline.
C29_AuthTimeoutWithinRemaining ==
  \A c \in Calls : call[c].pc = "auth_net" => call[c].due <= call[c].deadline

\* The last Authenticate call of call c came back without a token: with an
\* RpcCallError or with a result that has no Token.
AuthenticateFailed(c) == authLast[c].kind \notin {"None", "Token"}

\* C30: when authenticate fails inside a fetch call, before the first
\* RouterInfo call or in the re-authentication after a credential-expiry
\* error, the fetch call has returned that error and no RouterInfo call of
\* its own follows: every RouterInfo call it dispatched was answered with
\* the expiry that made it clear the Session.
C30_AuthenticateErrorPropagates ==
  \A c \in Calls :
    AuthenticateFailed(c) =>
      /\ call[c].pc = "done"
      /\ result[c] = IF authLast[c].kind = "NoToken"
                       THEN [kind |-> "AuthFailed", val |-> 0, method |-> ""]
                       ELSE authLast[c]
      /\ RiDispatched(c) = clears[c]
      /\ RiDispatched(c) = ExpirySeen(c)

\* A re-authentication after a credential-expiry error failed with a
\* transport error, and an initial authentication with an Rpc error.
C30_Witness ==
  /\ \E c \in Calls : /\ authLast[c].kind = "Transport"
                      /\ result[c].kind = "Transport"
                      /\ Len(riHist[c]) = 1
  /\ \E c \in Calls : /\ authLast[c].kind = "Rpc"
                      /\ result[c].kind = "Rpc"
                      /\ Len(riHist[c]) = 0

\* Call c is at a point where fetch_router_info computes the remaining
\* time next: before the initial authentication or the RouterInfo call
\* (the token read, or authenticate about to return a token to the first
\* call site), or before the re-authentication.
BeforeDeadlineCheck(c) ==
  \/ call[c].pc \in {"read", "clear"}
  \/ call[c].pc = "auth_store" /\ call[c].site = "first"
  \/ call[c].pc = "auth_check" /\ call[c].site = "first" /\ token # 0

\* C28: a RouterInfo call is dispatched only while deadline - now is
\* strictly positive, with exactly that remaining time as its timeout; a
\* call that finds no time remaining before the initial authentication, the
\* RouterInfo call or the re-authentication returns TimedOut and dispatches
\* nothing.
C28_DispatchOnlyWithTimeLeft ==
  [][\A c \in Calls :
       /\ (call[c].pc # "ri_net" /\ call'[c].pc = "ri_net") =>
            /\ call[c].deadline - now > 0
            /\ call'[c].due - now = call[c].deadline - now
       /\ (BeforeDeadlineCheck(c) /\ now >= call[c].deadline /\ call'[c] # call[c]) =>
            /\ call'[c].pc = "done"
            /\ result'[c] = [kind |-> "TimedOut", val |-> 0, method |-> ""]
            /\ authInv'[c] = authInv[c]
            /\ authNet'[c] = authNet[c]
            /\ riHist'[c] = riHist[c]
    ]_vars

\* A call returned TimedOut before its re-authentication (it cleared the
\* Session and never invoked authenticate) while the RouterInfo call of the
\* other is in flight with time left.
C28_Witness ==
  \E c, d \in Calls :
    /\ result[c].kind = "TimedOut" /\ clears[c] = 1 /\ authInv[c] = 0
    /\ call[d].pc = "ri_net" /\ call[d].due = call[d].deadline /\ now < call[d].due

\* Call c is past the acquisition of the refresh lock inside authenticate.
HoldsRefreshLock(c) == call[c].pc \in {"auth_check", "auth_net", "auth_store"}

\* C26: the refresh lock is released on every exit of authenticate: it is
\* held exactly by the call that is inside authenticate past the
\* acquisition, so it is free whenever no authenticate call is active, and
\* a call waiting for it eventually acquires it.
C26_RefreshLockReleased ==
  /\ [](\A c \in Calls : HoldsRefreshLock(c) <=> auth_lock = c)
  /\ []((\A c \in Calls : ~HoldsRefreshLock(c)) => auth_lock = 0)
  /\ \A c \in Calls : (call[c].pc = "auth_wait") ~> (auth_lock = c)

\* A call is inside authenticate with the lock after the other left
\* authenticate by each kind of exit: with an error of the Authenticate call
\* and (against the always-rejecting server) with a stored token before.
C26_Witness ==
  \E c, d \in Calls :
    /\ c # d
    /\ auth_lock = c /\ call[c].pc = "auth_check"
    /\ call[d].pc = "done" /\ authLast[d].kind = "Rpc"
    /\ authInv[d] = 2 /\ clears[d] = 1

\* C25 as stated: a call whose authenticate acquired the refresh lock while
\* the Session held a token dispatches no Authenticate call.
C25_TokenAtAcquireMeansNoCall ==
  \A c \in Calls : call[c].pc = "auth_net" => call[c].seen = 0

\* C25 amended: a call that finds a token in the Session when it re-reads
\* it under the refresh lock leaves authenticate with that token: no
\* Authenticate call is dispatched, the Session and the server are left as
\* they are, the lock is released, and the RouterInfo call that follows at
\* the first call site carries that token.
C25_TokenAtRecheckMeansNoCall ==
  [][\A c \in Calls :
       (call[c].pc = "auth_check" /\ token # 0 /\ call'[c] # call[c]) =>
         /\ call'[c].pc \in {"ri_net", "read", "done"}
         /\ authNet' = authNet
         /\ token' = token
         /\ issued' = issued
         /\ auth_lock' = 0
         /\ call'[c].pc = "ri_net" => call'[c].tok = token
         /\ call'[c].pc = "read" => call[c].site = "retry"
    ]_vars

\* A call invoked authenticate, dispatched no Authenticate call, and has
\* its RouterInfo call out with the token another call stored.
C25_Witness ==
  \E c \in Calls :
    /\ call[c].pc = "ri_net"
    /\ authInv[c] = 1 /\ authNet[c] = 0
    /\ call[c].tok = token /\ token # 0

\* C27: the lock around the token is never held by a call that has a
\* network call in flight or that waits for the refresh lock; a call with a
\* RouterInfo call in flight holds no lock at all, so the refresh lock,
\* across an Authenticate call, is the only lock held across a network call.
C27_TokenLockNotHeldAcrossAwait ==
  \A c \in Calls :
    /\ call[c].pc \in {"ri_net", "auth_net", "auth_wait"} => token_lock # c
    /\ call[c].pc = "ri_net" => auth_lock # c

\* A call holds the token lock to clear the rejected token while the
\* Authenticate call of the other, which holds the refresh lock, is in
\* flight.
C27_Witness ==
  \E c, d \in Calls :
    /\ token_lock = c /\ call[c].pc = "clear"
    /\ call[d].pc = "auth_net" /\ auth_lock = d /\ token_lock # d

\* C21: for the Authenticate method the body_snippet of every Http and every
\* Decode error of rpc_call is the placeholder "<omitted>" and holds no char
\* of the response body, whatever the body is.
C21_AuthSnippetOmitted ==
  (ret # NoResult /\ args.method = "Authenticate" /\ ret.kind \in {"Http", "Decode"}) =>
    /\ ret.body_snippet.lit = "<omitted>"
    /\ ret.body_snippet.chars = 0

\* An Authenticate call was answered 2xx with a text of more than 2048
\* chars that is no JSON, and came back as Decode with the placeholder.
C21_Witness ==
  /\ args.method = "Authenticate" /\ args.status = 200
  /\ ~args.text.json /\ args.text.chars = 2049
  /\ ret.kind = "Decode" /\ ret.body_snippet.lit = "<omitted>"

\* C22: for the Authenticate method the error rpc_call returns holds
\* nothing of the response body: two responses with the same status whose
\* bodies lead to the same error variant give the same error text, for
\* every variant, Rpc included.
C22_AuthErrorTextIgnoresBody ==
  (/\ ret.kind = "Pair"
   /\ args.method = "Authenticate"
   /\ ret.first.kind = ret.second.kind
   /\ ret.first.kind # "Ok") =>
      to_string(ret.first) = to_string(ret.second)

\* Value w is value v with the value of every member named Password or
\* Token, at every depth, replaced by the string "***redacted***", and with
\* nothing else changed: same kinds, same keys in the same places, same
\* scalars.
RECURSIVE IsRedactionOf(_, _)
IsRedactionOf(w, v) ==
  /\ w.t = v.t
  /\ w.s = v.s
  /\ DOMAIN w.items = DOMAIN v.items
  /\ \A i \in DOMAIN v.items :
       /\ w.items[i].k = v.items[i].k
       /\ IF v.t = "object" /\ v.items[i].k \in {"Password", "Token"}
            THEN w.items[i].v = [t |-> "string", s |-> "***redacted***", items |-> <<>>]
            ELSE IsRedactionOf(w.items[i].v, v.items[i].v)

\* Value v holds the string x somewhere.
RECURSIVE Holds(_, _)
Holds(v, x) ==
  \/ v.t = "string" /\ v.s = x
  \/ \E i \in DOMAIN v.items : Holds(v.items[i].v, x)

\* Every place of v that holds a string other than the marker is the value
\* of a member named Password or Token, or lies inside one.
RECURSIVE OnlyInSensitive(_)
OnlyInSensitive(v) ==
  /\ v.t = "string" => v.s = "***redacted***"
  /\ \A i \in DOMAIN v.items :
       \/ v.t = "object" /\ v.items[i].k \in {"Password", "Token"}
       \/ OnlyInSensitive(v.items[i].v)

\* C23: redact_sensitive_fields replaces the value of every key named
\* Password or Token by "***redacted***" at every depth through objects and
\* arrays and leaves every other key and value and the structure as they
\* are; a secret that the request holds only in such members is not in
\* what is logged.
C23_RedactsAtEveryDepth ==
  ret.kind = "Value" =>
    /\ IsRedactionOf(ret.redacted, args)
    /\ OnlyInSensitive(args) => ~Holds(ret.redacted, "secret")

\* An object with a Token inside an array inside params was redacted; the
\* lower-case key beside it kept its value.
C23_Witness ==
  /\ ret.kind = "Value"
  /\ args.t = "object" /\ Len(args.items) = 1 /\ args.items[1].k = "params"
  /\ args.items[1].v.t = "array"
  /\ args.items[1].v.items[1].v.t = "object"
  /\ args.items[1].v.items[1].v.items[1].k = "Token"
  /\ args.items[1].v.items[1].v.items[1].v.s = "secret"
  /\ ret.redacted.items[1].v.items[1].v.items[1].v.s = "***redacted***"

\* C24: after A.merge_from(B) every field of A has B's value where B's
\* field is present and the value A had before where B's field is absent.
C24_MergePrefersPresent ==
  ret.kind = "Snapshot" =>
    /\ DOMAIN ret.self = DOMAIN args.self
    /\ \A f \in DOMAIN args.self :
         ret.self[f] = IF args.other[f] = <<>> THEN args.self[f] ELSE args.other[f]

\* A (X = 5, Y = 7) merged with C (X = 9, Y absent) gave (X = 9, Y = 7),
\* for the fields net_error and net_error_v6.
C24_Witness ==
  /\ ret.kind = "Snapshot"
  /\ args.self["net_error"] = <<5>> /\ args.self["net_error_v6"] = <<7>>
  /\ args.other["net_error"] = <<9>> /\ args.other["net_error_v6"] = <<>>
  /\ ret.self["net_error"] = <<9>> /\ ret.self["net_error_v6"] = <<7>>

\* C39: in every interleaving a fetch call invokes authenticate at most 3
\* times: it re-authenticates at most once, after the one time it cleared
\* the Session, and apart from that it invokes authenticate at most once
\* in each of its at most 2 loop iterations.
C39_AtMostThreeInvocations ==
  \A c \in Calls :
    /\ authInv[c] <= 3
    /\ clears[c] <= 1
    /\ authInv[c] - clears[c] <= 2
    /\ authInv[c] - clears[c] <= RiDispatched(c) + 1

\* A call that invoked authenticate three times got its Snapshot: the
\* third invocation found the Session cleared by the other call.
C39_Witness ==
  \E c \in Calls :
    /\ authInv[c] = 3 /\ clears[c] = 1
    /\ result[c].kind = "Ok"
    /\ \E d \in Calls \ {c} : clears[d] = 1

\* C37: the Session token changes only when a call clears it right after
\* its first credential-expiry error, or stores the token of a successful
\* Authenticate response of its own; every other step of a call, among
\* them the return of a failed authenticate, of a RouterInfo error that is
\* no first credential-expiry error, of a Snapshot, and the TimedOut exits
\* at the token read, leaves it as it is.
C37_TokenChangesOnlyByClearOrStore ==
  [][/\ token' # token =>
          \E c \in Calls :
            \/ /\ call[c].pc = "clear"
               /\ token' = 0
               /\ clears[c] = 0 /\ clears'[c] = 1
               /\ Len(riHist[c]) = 1 /\ InExpiryRange(riHist[c][1])
            \/ /\ call[c].pc = "auth_store"
               /\ authLast[c].kind = "Token"
               /\ token' = issued /\ token' = call[c].fresh
     /\ \A c \in Calls :
          (call'[c] # call[c] /\ call[c].pc \notin {"clear", "auth_store"}) =>
             token' = token
    ]_vars

\* A token was stored after a call had cleared the one before, and a call
\* has returned its second credential-expiry error with that token still
\* in the Session.
C37_Witness ==
  /\ token = 2
  /\ \E c \in Calls : /\ clears[c] = 1
                      /\ Len(riHist[c]) = 2
                      /\ result[c].kind = "Rpc"
                      /\ ExpirySeen(c) = 2

\* C35: the Session token is absent or one of the tokens the server
\* returned in a successful Authenticate response, and the Token parameter
\* of every RouterInfo call is such a token: the one the call read from the
\* Session at the top of the loop iteration, or the one authenticate
\* returned to it in that iteration (re-read under the lock, or just
\* stored).
C35_TokensAreIssued ==
  /\ [](token \in 0..issued)
  /\ [](\A c \in Calls : call[c].pc = "ri_net" => call[c].tok \in 1..issued)
  /\ [][\A c \in Calls :
          (call[c].pc # "ri_net" /\ call'[c].pc = "ri_net") =>
             \/ call[c].pc \in {"read", "auth_check"} /\ call'[c].tok = token /\ token # 0
             \/ call[c].pc = "auth_store" /\ call'[c].tok = call[c].fresh
                  /\ call[c].fresh = token' /\ authLast[c].kind = "Token"
      ]_vars

\* One RouterInfo call carries the token its call read from the Session
\* without invoking authenticate, the other the token its call was issued.
C35_Witness ==
  \E c, d \in Calls :
    /\ call[c].pc = "ri_net" /\ authInv[c] = 0 /\ call[c].tok # 0
    /\ call[d].pc = "ri_net" /\ authNet[d] = 1 /\ call[d].tok = issued

\* C34: while an Authenticate call is in flight the Session holds no token;
\* the call that is about to store a token holds the refresh lock, its own
\* Authenticate call has come back with that token, and the Session it
\* found empty after acquiring the lock is empty still.
C34_NoTokenWhileAuthenticating ==
  \A c \in Calls :
    /\ call[c].pc = "auth_net" => token = 0 /\ auth_lock = c
    /\ call[c].pc = "auth_store" =>
         /\ token = 0 /\ auth_lock = c
         /\ authLast[c].kind = "Token"
         /\ call[c].fresh = issued

\* A second token is about to be stored: the first was cleared, the Session
\* is empty, the other call waits for the lock.
C34_Witness ==
  \E c, d \in Calls :
    /\ call[c].pc = "auth_store" /\ call[c].fresh = 2
    /\ token = 0
    /\ call[d].pc = "auth_wait"

\* Call c was abandoned: its future was dropped before it returned.
Abandoned(c) == result[c].kind = "Abandoned"

\* C36: a fetch call abandoned at a suspension point holds the refresh
\* lock no longer, the step that abandons it leaves the Session as it is,
\* absent or holding an issued token, and no other call is blocked by it
\* for ever: a later call that waits for the refresh lock gets it.
C36_AbandonReleases ==
  /\ [](\A c \in Calls : Abandoned(c) => auth_lock # c /\ token_lock # c)
  /\ [](token \in 0..issued)
  /\ [][\A c \in Calls :
          (~Abandoned(c) /\ Abandoned(c)') =>
             /\ token' = token
             /\ auth_lock' = IF auth_lock = c THEN 0 ELSE auth_lock
      ]_vars
  /\ (call[NCalls].pc = "auth_wait") ~> (auth_lock = NCalls)

\* An earlier call was abandoned while its Authenticate call was in flight
\* (it dispatched one and got no answer), and the later call holds the
\* refresh lock.
C36_Witness ==
  \E c \in Calls \ {NCalls} :
    /\ Abandoned(c)
    /\ authNet[c] = 1 /\ authLast[c].kind = "None" /\ Len(riHist[c]) = 0
    /\ auth_lock = NCalls

\* The request served with call c has been answered with an encoded body.
Answered(c) == req[c].encoded

\* C31: the fetch of a request runs under a hard timeout equal to the
\* resolved budget, which abandons it no earlier than that; a Snapshot is
\* answered 200 with error flag 0 and goes to the encoder; an abandoned
\* fetch, a deadline-exceeded error and a transport timeout are answered
\* 504, every other error 500; the error flag is 1 and the encoder gets no
\* Snapshot exactly when the status is not 200.
C31_OutcomeToStatus ==
  /\ [](\A c \in Calls :
          Answered(c) =>
            /\ call[c].pc = "done"
            /\ result[c].kind = "Ok" =>
                 /\ req[c].status = 200 /\ req[c].scrape_error = 0
                 /\ req[c].router_data = result[c].val
            /\ ( \/ result[c].kind \in {"Abandoned", "TimedOut"}
                 \/ result[c].kind = "Transport" /\ req[c].is_timeout ) =>
                 req[c].status = 504
            /\ ( \/ result[c].kind \in {"AuthFailed", "Encode", "Http", "Rpc", "Decode"}
                 \/ result[c].kind = "Transport" /\ ~req[c].is_timeout ) =>
                 req[c].status = 500
            /\ req[c].status \in {200, 500, 504}
            /\ req[c].scrape_error = 1 <=> req[c].status # 200
            /\ req[c].router_data = 0 <=> req[c].status # 200)
  /\ [][\A c \in Calls :
          /\ (call[c].pc = "idle" /\ call'[c].pc # "idle") =>
               call'[c].deadline - now =
                 effective_timeout(req'[c].headers, max_scrape_timeout).d.ms \div 100
          /\ (result[c].kind # "Abandoned" /\ result'[c].kind = "Abandoned") =>
               now >= call[c].deadline
      ]_vars

\* Of two requests one was answered 504 because its fetch returned the
\* deadline-exceeded error, the other 500 for a transport error that was
\* no timeout.
C31_Witness ==
  \E c, d \in Calls :
    /\ Answered(c) /\ result[c].kind = "TimedOut" /\ req[c].status = 504
    /\ Answered(d) /\ result[d].kind = "Transport" /\ ~req[d].is_timeout
    /\ req[d].status = 500 /\ req[d].scrape_error = 1

\* The budget, a whole number of milliseconds d, is at most the larger of
\* 0.1 s and the hint of the request as it was written.
AtMostHintOrFloor(d) ==
  \/ d <= 100
  \/ args.txt = "1e30"
  \/ args.txt \in {"num", "num+"} /\ d <= args.ms
  \/ args.txt = "num-" /\ d < args.ms

\* The budget d is at most the larger of 0.1 s and the hint rounded to the
\* nearest nanosecond.
AtMostRoundedHintOrFloor(d) ==
  \/ d <= 100
  \/ args.txt = "1e30"
  \/ args.txt \in {"num", "num-", "num+"} /\ d <= args.ms

\* C38 as stated: for every finite hint h and every ceiling, the budget
\* effective_timeout returns is at most max(h, 0.1 s).
C38_AtMostHint ==
  (Resolved /\ HintIsFinite /\ ret.kind = "Some") => AtMostHintOrFloor(ret.d.ms)

\* C38, amended: for every finite hint h and every ceiling, the budget
\* effective_timeout returns is at most the larger of 0.1 s and h rounded
\* to the nearest nanosecond.
C38_AtMostRoundedHint ==
  (Resolved /\ HintIsFinite /\ ret.kind = "Some") =>
    AtMostRoundedHintOrFloor(ret.d.ms)

\* A hint 0.4 ns below 1.1 s under a ceiling of 60 s gave 1.1 s, and this
\* is the hint rounded to the nearest nanosecond.
C38_Witness ==
  /\ args = [form |-> "text", txt |-> "num-", ms |-> 1100]
  /\ max_scrape_timeout = Secs(60)
  /\ ret.kind = "Some" /\ ret.d.ms = 1100

\* The locals of a fetch call that awaits the answer to its RouterInfo
\* call, before (d false) or after (d true) its one retry.
AwaitingRouterInfo(d) == [Idle EXCEPT !.pc = "ri_net", !.did_retry = d, !.tok = 1]

\* C32: a response whose status is not 2xx makes rpc_call return
\* RpcCallError::Http with that status whatever the body is, a valid error
\* envelope with a credential-expiry code included; fetch_router_info, given
\* this error for its RouterInfo call, returns it: it does not go on to
\* clear the Session, to re-authenticate or to retry.
C32_Non2xxIsHttp ==
  (ret # NoResult /\ args.status \notin 200..299) =>
    /\ ret.kind = "Http" /\ ret.val = args.status /\ ret.method = args.method
    /\ \A d \in BOOLEAN :
         LET o == OnRouterInfo(AwaitingRouterInfo(d), ret) IN
           o.ret = ret /\ o.l.pc = "done"

\* A 500 response to RouterInfo whose body holds only an error member of
\* code -32003 came back as Http.
C32_Witness ==
  /\ args.method = "RouterInfo" /\ args.status = 500
  /\ args.text.obj /\ args.text.result.st = "absent"
  /\ args.text.error.st = "good" /\ args.text.error.code = -32003
  /\ ret.kind = "Http" /\ ret.val = 500

\* The number of chars and of bytes of the chars cs.
RECURSIVE NumChars(_)
NumChars(cs) == IF cs = <<>> THEN 0 ELSE cs[1].n + NumChars(Tail(cs))
RECURSIVE NumBytes(_)
NumBytes(cs) ==
  IF cs = <<>> THEN 0
  ELSE LET w == CASE cs[1].c = "a" -> 1 [] cs[1].c = "e-acute" -> 2
                  [] cs[1].c = "euro" -> 3 [] cs[1].c = "grin" -> 4
       IN  cs[1].n * w + NumBytes(Tail(cs))

\* The i-th char of cs.
RECURSIVE CharAt(_, _)
CharAt(cs, i) == IF i <= cs[1].n THEN cs[1].c ELSE CharAt(Tail(cs), i - cs[1].n)

\* t is the first k chars of s, whole: it has k chars, they are the chars of
\* s in their order, and it has no byte beyond them.
IsFirstChars(t, s, k) ==
  /\ NumChars(t.chars) = k
  /\ k <= NumChars(s.chars)
  /\ \A i \in 1..k : CharAt(t.chars, i) = CharAt(s.chars, i)
  /\ t.len = NumBytes(t.chars)

\* C33: truncate_chars(s, max) is the first min(number of chars of s, max)
\* chars of s, whole; the body_snippet of an error of a method other than
\* Authenticate is the first chars of the body, at most 2048 of them, and
\* ends where a char ends.
C33_TruncateIsCharPrefix ==
  ret # NoResult =>
    LET n == NumChars(args.s.chars) IN
      /\ IsFirstChars(ret.t, args.s, IF n <= args.max THEN n ELSE args.max)
      /\ \E k \in 0..2048 : IsFirstChars(ret.body_snippet, args.s, k)

\* 2047 chars of one byte followed by two chars of three bytes: cut at 2 it
\* is two bytes long, and its snippet has 2048 chars in 2050 bytes.
C33_Witness ==
  /\ args.s.chars = <<[c |-> "a", n |-> 2047], [c |-> "euro", n |-> 2]>>
  /\ args.max = 2
  /\ ret.kind = "String"
  /\ ret.t = [chars |-> <<[c |-> "a", n |-> 2]>>, len |-> 2]
  /\ ret.body_snippet.len = 2050

====
